---- MODULE Spec2Model ----
(***************************************************************************)
(* Model of lib/api_ip.js of co-wechat-enterprise-api: the token-gated     *)
(* request builders mixed into the API host object, and getAuthorizeURL.   *)
(*                                                                         *)
(* JavaScript values are tagged records, so that values of different types *)
(* can be compared; JavaScript strings are TLA+ strings.                   *)
(***************************************************************************)
EXTENDS Integers, Sequences, FiniteSets, TLC

VARIABLES
  host,        \* the host object `this`: prefix, corpid, agentid
  version,     \* how many times the accessor has refreshed its credential
  credential,  \* the token the accessor currently holds
  calls        \* per caller: the async call in flight and what it has done

vars == <<host, version, credential, calls>>

---------------------------------------------------------------------------
(* Bounds of the model *)

\* the accessor refreshes its credential at most this many times
MaxRefresh == 1

---------------------------------------------------------------------------
(* JavaScript values *)

Undefined == [k |-> "undefined"]
Null == [k |-> "null"]
Str(s) == [k |-> "string", s |-> s]
Num(n) == [k |-> "number", n |-> n]
Arr(items) == [k |-> "array", items |-> items]
\* an object: its own enumerable keys in insertion order, and their values
Obj(keys, vals) == [k |-> "object", keys |-> keys, vals |-> vals]
Err(msg) == [k |-> "error", msg |-> msg]

\* o[key]: the value of a property, undefined when the object has none
Get(o, key) ==
  IF o.k = "object" /\ \E i \in DOMAIN o.keys : o.keys[i] = key
  THEN o.vals[CHOOSE i \in DOMAIN o.keys : o.keys[i] = key]
  ELSE Undefined

\* ToBoolean, as the || operator applies it
Truthy(v) ==
  CASE v.k = "undefined" -> FALSE
    [] v.k = "null" -> FALSE
    [] v.k = "string" -> v.s # ""
    [] v.k = "number" -> v.n # 0
    [] OTHER -> TRUE

\* a || b
OrElse(a, b) == IF Truthy(a) THEN a ELSE b

\* ToString, as string concatenation applies it to a primitive
ToStringJS(v) ==
  CASE v.k = "string" -> v.s
    [] v.k = "number" -> ToString(v.n)
    [] v.k = "undefined" -> "undefined"
    [] v.k = "null" -> "null"
    [] OTHER -> "[object Object]"

\* a + b where one side is a string
Plus(a, b) == Str(ToStringJS(a) \o ToStringJS(b))

---------------------------------------------------------------------------
(* JSON.stringify, on plain data whose strings need no escaping *)

RECURSIVE JSONtext(_)
RECURSIVE JSONitems(_)
RECURSIVE JSONprops(_, _, _)

\* the elements of an array, comma separated; undefined becomes null
JSONitems(items) ==
  IF items = <<>> THEN ""
  ELSE LET h == IF Head(items).k = "undefined" THEN "null" ELSE JSONtext(Head(items))
       IN  IF Len(items) = 1 THEN h ELSE h \o "," \o JSONitems(Tail(items))

\* the properties of an object; a property whose value is undefined is left out
JSONprops(keys, vals, first) ==
  IF keys = <<>> THEN ""
  ELSE IF Head(vals).k = "undefined" THEN JSONprops(Tail(keys), Tail(vals), first)
  ELSE (IF first THEN "" ELSE ",") \o "\"" \o Head(keys) \o "\":" \o JSONtext(Head(vals))
         \o JSONprops(Tail(keys), Tail(vals), FALSE)

JSONtext(v) ==
  CASE v.k = "string" -> "\"" \o v.s \o "\""
    [] v.k = "number" -> ToString(v.n)
    [] v.k = "null" -> "null"
    [] v.k = "array" -> "[" \o JSONitems(v.items) \o "]"
    [] v.k = "object" -> "{" \o JSONprops(v.keys, v.vals, TRUE) \o "}"

\* JSON.stringify(v): a string, or undefined for undefined
JSONstringify(v) == IF v.k = "undefined" THEN Undefined ELSE Str(JSONtext(v))

\* util.postJSON(data): the options of a POST whose payload is data as JSON
postJSON(data) ==
  Obj(<<"dataType", "method", "data">>, <<Str("json"), Str("POST"), JSONstringify(data)>>)

---------------------------------------------------------------------------
(* The module's exports *)

\* the assignments to exports.<name>, in source order; a function is named
\* by its export name and the line of its definition
ModuleAssignments ==
  << [name |-> "getCallbackIp",            fn |-> "getCallbackIp@16"],
     [name |-> "createUser",               fn |-> "createUser@56"],
     [name |-> "updateUser",               fn |-> "updateUser@90"],
     [name |-> "deleteUser",               fn |-> "deleteUser@111"],
     [name |-> "deleteUser",               fn |-> "deleteUser@135"],
     [name |-> "getUser",                  fn |-> "getUser@170"],
     [name |-> "getDepartmentUsers",       fn |-> "getDepartmentUsers@201"],
     [name |-> "getDepartmentUsersDetail", fn |-> "getDepartmentUsersDetail@243"],
     [name |-> "inviteUser",               fn |-> "inviteUser@278"],
     [name |-> "getUserIdByCode",          fn |-> "getUserIdByCode@305"],
     [name |-> "getAuthorizeURL",          fn |-> "getAuthorizeURL@324"] >>

AssignmentsTo(name) == {i \in DOMAIN ModuleAssignments : ModuleAssignments[i].name = name}

\* a mutant: the first assignment to a name wins
ExportedFirst(name) ==
  ModuleAssignments[CHOOSE i \in AssignmentsTo(name) : \A j \in AssignmentsTo(name) : i <= j].fn

\* exports[name] once the module is loaded: the last assignment wins
Exported(name) ==
  ModuleAssignments[CHOOSE i \in AssignmentsTo(name) : \A j \in AssignmentsTo(name) : j <= i].fn

---------------------------------------------------------------------------
(* The code of each token-gated function after its await: the request it   *)
(* hands to this.request, as [url, opts].                                  *)

Request(url, opts) == [url |-> url, opts |-> opts]

getCallbackIpBody(self, accessToken, args) ==
  Request(Plus(Plus(self.prefix, Str("getcallbackip?access_token=")), accessToken), Undefined)

createUserBody(self, accessToken, args) ==
  Request(Plus(Plus(self.prefix, Str("user/create?access_token=")), accessToken), postJSON(args[1]))

updateUserBody(self, accessToken, args) ==
  Request(Plus(Plus(self.prefix, Str("user/update?access_token=")), accessToken), postJSON(args[1]))

\* the first definition of deleteUser: one user, by id
deleteUserSingleBody(self, accessToken, args) ==
  Request(Plus(Plus(self.prefix, Str("user/delete?access_token=")), accessToken),
          Obj(<<"data">>, <<Obj(<<"userid">>, <<args[1]>>)>>))

\* the second definition of deleteUser: a list of users
deleteUserBatchBody(self, accessToken, args) ==
  Request(Plus(Plus(self.prefix, Str("user/batchdelete?access_token=")), accessToken),
          postJSON(Obj(<<"useridlist">>, <<args[1]>>)))

\* a mutant: the token is appended as a second query parameter
getUserBodyAmpersand(self, accessToken, args) ==
  Request(Plus(Plus(self.prefix, Str("user/get&access_token=")), accessToken),
          Obj(<<"data">>, <<Obj(<<"userid">>, <<args[1]>>)>>))

getUserBody(self, accessToken, args) ==
  Request(Plus(Plus(self.prefix, Str("user/get?access_token=")), accessToken),
          Obj(<<"data">>, <<Obj(<<"userid">>, <<args[1]>>)>>))

getDepartmentUsersBody(self, accessToken, args) ==
  Request(Plus(Plus(self.prefix, Str("user/simplelist?access_token=")), accessToken),
          Obj(<<"data">>, <<Obj(<<"department_id", "fetch_child">>, <<args[1], args[2]>>)>>))

getDepartmentUsersDetailBody(self, accessToken, args) ==
  Request(Plus(Plus(self.prefix, Str("user/list?access_token=")), accessToken),
          Obj(<<"data">>, <<Obj(<<"department_id", "fetch_child">>, <<args[1], args[2]>>)>>))

\* a mutant: the tag property is given the party argument
inviteUserBodyTagIsParty(self, accessToken, args) ==
  Request(Plus(Plus(self.prefix, Str("batch/invite?access_token=")), accessToken),
          postJSON(Obj(<<"user", "party", "tag">>, <<args[1], args[2], args[2]>>)))

inviteUserBody(self, accessToken, args) ==
  Request(Plus(Plus(self.prefix, Str("batch/invite?access_token=")), accessToken),
          postJSON(Obj(<<"user", "party", "tag">>, <<args[1], args[2], args[3]>>)))

\* a mutant: the agentid is left out
getUserIdByCodeBodyNoAgent(self, accessToken, args) ==
  Request(Plus(Plus(self.prefix, Str("user/getuserinfo?access_token=")), accessToken),
          Obj(<<"data">>, <<Obj(<<"code">>, <<args[1]>>)>>))

getUserIdByCodeBody(self, accessToken, args) ==
  Request(Plus(Plus(self.prefix, Str("user/getuserinfo?access_token=")), accessToken),
          Obj(<<"data">>, <<Obj(<<"code", "agentid">>, <<args[1], self.agentid>>)>>))

\* the body of the function object fn
BodyOf(fn, self, accessToken, args) ==
  CASE fn = "getCallbackIp@16" -> getCallbackIpBody(self, accessToken, args)
    [] fn = "createUser@56" -> createUserBody(self, accessToken, args)
    [] fn = "updateUser@90" -> updateUserBody(self, accessToken, args)
    [] fn = "deleteUser@111" -> deleteUserSingleBody(self, accessToken, args)
    [] fn = "deleteUser@135" -> deleteUserBatchBody(self, accessToken, args)
    [] fn = "getUser@170" -> getUserBody(self, accessToken, args)
    [] fn = "getDepartmentUsers@201" -> getDepartmentUsersBody(self, accessToken, args)
    [] fn = "getDepartmentUsersDetail@243" -> getDepartmentUsersDetailBody(self, accessToken, args)
    [] fn = "inviteUser@278" -> inviteUserBody(self, accessToken, args)
    [] fn = "getUserIdByCode@305" -> getUserIdByCodeBody(self, accessToken, args)

---------------------------------------------------------------------------
(* querystring.stringify and getAuthorizeURL *)

\* querystring.escape of one character: the characters outside
\* A-Z a-z 0-9 - _ . ! ~ * ' ( ) are percent-encoded
QsEscapeChar(ch) ==
  CASE ch = ":" -> "%3A"
    [] ch = "/" -> "%2F"
    [] ch = "?" -> "%3F"
    [] ch = "&" -> "%26"
    [] ch = "=" -> "%3D"
    [] ch = "#" -> "%23"
    [] ch = " " -> "%20"
    [] ch = "%" -> "%25"
    [] ch = "+" -> "%2B"
    [] OTHER -> ch

RECURSIVE QsEscape(_)
QsEscape(s) ==
  IF s = "" THEN "" ELSE QsEscapeChar(SubSeq(s, 1, 1)) \o QsEscape(SubSeq(s, 2, Len(s)))

\* stringifyPrimitive: strings and numbers as text, anything else as ''
StringifyPrimitive(v) ==
  CASE v.k = "string" -> v.s
    [] v.k = "number" -> ToString(v.n)
    [] OTHER -> ""

RECURSIVE QsPairs(_, _)
QsPairs(keys, vals) ==
  IF keys = <<>> THEN ""
  ELSE QsEscape(Head(keys)) \o "=" \o QsEscape(StringifyPrimitive(Head(vals)))
         \o (IF Len(keys) = 1 THEN "" ELSE "&" \o QsPairs(Tail(keys), Tail(vals)))

\* querystring.stringify(obj) of an object of primitives
QsStringify(obj) == Str(QsPairs(obj.keys, obj.vals))

\* a mutant: the scope is passed as given, without the default
AuthorizeInfoNoDefault(self, redirect, state, scope) ==
  Obj(<<"appid", "redirect_uri", "response_type", "scope", "state">>,
      <<self.corpid, redirect, Str("code"), scope, OrElse(state, Str(""))>>)

\* the object `info` of getAuthorizeURL
AuthorizeInfo(self, redirect, state, scope) ==
  Obj(<<"appid", "redirect_uri", "response_type", "scope", "state">>,
      <<self.corpid, redirect, Str("code"), OrElse(scope, Str("snsapi_base")),
        OrElse(state, Str(""))>>)

\* the value getAuthorizeURL returns
AuthorizeURL(self, redirect, state, scope) ==
  Plus(Plus(Plus(Str("https://open.weixin.qq.com/connect/oauth2/authorize"), Str("?")),
            QsStringify(AuthorizeInfo(self, redirect, state, scope))),
       Str("#wechat_redirect"))

---------------------------------------------------------------------------
(* The collaborators and the callers *)

Callers == {"c1", "c2"}

\* the token the accessor holds after v refreshes
Token(v) == Str("TOKEN" \o ToString(v))

\* what a collaborator's promise can reject with
Errors == {Err("ETIMEDOUT"), Err("invalid credential")}

\* what the transport can resolve to: the vendor's payloads
Results ==
  { Obj(<<"errcode", "errmsg">>, <<Num(0), Str("ok")>>),
    Obj(<<"errcode", "errmsg">>, <<Num(40014), Str("invalid access_token")>>) }

\* the state of a promise
Pending == [st |-> "pending", v |-> Undefined]
Fulfilled(v) == [st |-> "fulfilled", v |-> v]
Rejected(e) == [st |-> "rejected", v |-> e]
None == [st |-> "none", v |-> Undefined]

\* a caller with no call in flight
Idle ==
  [pc |-> "idle", op |-> "", fn |-> "", args |-> <<>>, nAcc |-> 0, acc |-> None,
   reqs |-> <<>>, resp |-> None, outcome |-> None]

---------------------------------------------------------------------------
(* The steps of a call *)

\* a call of exports[name] on the host: the function runs up to its await,
\* having called this.ensureAccessToken()
Invoke(c, name, args) ==
  /\ calls[c].pc = "idle"
  /\ calls' = [calls EXCEPT ![c] =
       [pc |-> "awaitToken", op |-> name, fn |-> Exported(name), args |-> args,
        nAcc |-> 1, acc |-> Pending, reqs |-> <<>>, resp |-> None, outcome |-> Pending]]
  /\ UNCHANGED <<host, version, credential>>

getCallbackIp(c) == Invoke(c, "getCallbackIp", <<>>)
createUser(c, user) == Invoke(c, "createUser", <<user>>)
updateUser(c, user) == Invoke(c, "updateUser", <<user>>)
deleteUser(c, x) == Invoke(c, "deleteUser", <<x>>)
getUser(c, id) == Invoke(c, "getUser", <<id>>)
getDepartmentUsers(c, departmentId, fetchChild) ==
  Invoke(c, "getDepartmentUsers", <<departmentId, fetchChild>>)
getDepartmentUsersDetail(c, departmentId, fetchChild) ==
  Invoke(c, "getDepartmentUsersDetail", <<departmentId, fetchChild>>)
inviteUser(c, user, party, tag) == Invoke(c, "inviteUser", <<user, party, tag>>)
getUserIdByCode(c, code) == Invoke(c, "getUserIdByCode", <<code>>)

\* getAuthorizeURL is synchronous: it returns within the call
getAuthorizeURL(c, redirect, state, scope) ==
  /\ calls[c].pc = "idle"
  /\ calls' = [calls EXCEPT ![c] =
       [pc |-> "done", op |-> "getAuthorizeURL", fn |-> Exported("getAuthorizeURL"),
        args |-> <<redirect, state, scope>>, nAcc |-> 0, acc |-> None, reqs |-> <<>>,
        resp |-> None,
        outcome |-> [st |-> "returned", v |-> AuthorizeURL(host, redirect, state, scope)]]]
  /\ UNCHANGED <<host, version, credential>>

\* the accessor fulfils the promise of c's ensureAccessToken() with its credential
AccessorResolve(c) ==
  /\ calls[c].pc = "awaitToken"
  /\ calls[c].acc = Pending
  /\ calls' = [calls EXCEPT ![c].acc = Fulfilled(Obj(<<"accessToken">>, <<credential>>))]
  /\ UNCHANGED <<host, version, credential>>

\* the accessor rejects it
AccessorReject(c, e) ==
  /\ calls[c].pc = "awaitToken"
  /\ calls[c].acc = Pending
  /\ calls' = [calls EXCEPT ![c].acc = Rejected(e)]
  /\ UNCHANGED <<host, version, credential>>

\* the accessor refreshes its credential
RefreshToken ==
  /\ version < MaxRefresh
  /\ version' = version + 1
  /\ credential' = Token(version + 1)
  /\ UNCHANGED <<host, calls>>

\* a mutant: the request is built with the accessor's latest credential
\* instead of the token this call's await resolved to
AfterTokenLatest(call, self) ==
  [call EXCEPT !.pc = "awaitResponse",
               !.reqs = Append(@, BodyOf(call.fn, self, credential, call.args)),
               !.resp = Pending]

\* the call after its await, the token resolved: destructure the token, build
\* the request and hand it to this.request
AfterToken(call, self) ==
  [call EXCEPT !.pc = "awaitResponse",
               !.reqs = Append(@, BodyOf(call.fn, self, Get(call.acc.v, "accessToken"), call.args)),
               !.resp = Pending]

\* a mutant: the accessor's error is caught and another one thrown
AfterTokenErrorWrapped(call) ==
  [call EXCEPT !.pc = "done", !.outcome = Rejected(Err("get access token failed"))]

\* the call after its await, the accessor having rejected: the await throws
\* and the function's promise rejects with what it threw
AfterTokenError(call) ==
  [call EXCEPT !.pc = "done", !.outcome = Rejected(call.acc.v)]

\* a mutant: the URL is built in place, on this.prefix
ResumeOnPrefix(c) ==
  /\ calls[c].pc = "awaitToken"
  /\ calls[c].acc.st # "pending"
  /\ calls' = [calls EXCEPT ![c] =
       IF calls[c].acc.st = "fulfilled" THEN AfterToken(calls[c], host)
       ELSE AfterTokenError(calls[c])]
  /\ host' = IF calls[c].acc.st = "fulfilled"
             THEN [host EXCEPT !.prefix = AfterToken(calls[c], host).reqs[1].url]
             ELSE host
  /\ UNCHANGED <<version, credential>>

\* the function resumes from `await this.ensureAccessToken()`
Resume(c) ==
  /\ calls[c].pc = "awaitToken"
  /\ calls[c].acc.st # "pending"
  /\ calls' = [calls EXCEPT ![c] =
       IF calls[c].acc.st = "fulfilled" THEN AfterToken(calls[c], host)
       ELSE AfterTokenError(calls[c])]
  /\ UNCHANGED <<host, version, credential>>

\* a mutant: a payload with a non-zero errcode is thrown as an error
ReturnedChecked(call, settled) ==
  [call EXCEPT !.pc = "done", !.resp = settled,
               !.outcome = IF settled.st = "fulfilled" /\ Get(settled.v, "errcode") # Num(0)
                           THEN Rejected(Err(ToStringJS(Get(settled.v, "errmsg"))))
                           ELSE settled]

\* a mutant: a rejected request is made again
ReturnedRetry(call, settled) ==
  IF settled.st = "rejected" /\ Len(call.reqs) < 2
  THEN [call EXCEPT !.reqs = Append(@, @[1]), !.resp = Pending]
  ELSE [call EXCEPT !.pc = "done", !.resp = settled, !.outcome = settled]

\* `return this.request(...)`: the function's promise takes the state of the
\* transport's promise
Returned(call, settled) ==
  [call EXCEPT !.pc = "done", !.resp = settled, !.outcome = settled]

\* the transport fulfils the promise of c's request with the payload r
TransportResolve(c, r) ==
  /\ calls[c].pc = "awaitResponse"
  /\ calls' = [calls EXCEPT ![c] = Returned(calls[c], Fulfilled(r))]
  /\ UNCHANGED <<host, version, credential>>

\* the transport rejects it
TransportReject(c, e) ==
  /\ calls[c].pc = "awaitResponse"
  /\ calls' = [calls EXCEPT ![c] = Returned(calls[c], Rejected(e))]
  /\ UNCHANGED <<host, version, credential>>

\* the caller has the outcome of its call and may call again
Collect(c) ==
  /\ calls[c].pc = "done"
  /\ calls' = [calls EXCEPT ![c] = Idle]
  /\ UNCHANGED <<host, version, credential>>

---------------------------------------------------------------------------
(* Inputs *)

UserZhang ==
  Obj(<<"userid", "name", "department", "gender">>,
      <<Str("zhangsan"), Str("Zhang San"), Arr(<<Num(1), Num(2)>>), Num(1)>>)
UserLi ==
  Obj(<<"userid", "name", "enable">>, <<Str("lisi"), Str("Li Si"), Num(1)>>)
\* a record with a nested record, an empty list and a null
UserExt ==
  Obj(<<"userid", "extattr", "department", "email">>,
      <<Str("wangwu"),
        Obj(<<"attrs">>, <<Arr(<<Obj(<<"name", "value">>, <<Str("card"), Str("1234567234")>>)>>)>>),
        Arr(<<>>), Null>>)
IdList == Arr(<<Str("zhangsan"), Str("lisi")>>)
PartyList == Arr(<<Num(1), Num(2)>>)
TagList == Arr(<<Num(7)>>)

Host1 ==
  [prefix |-> Str("https://qyapi.weixin.qq.com/cgi-bin/"), corpid |-> Str("wx1d3765eb45497a18"),
   agentid |-> Num(1000002)]
Host2 ==
  [prefix |-> Str("http://127.0.0.1:8080/api/"), corpid |-> Str("corp id+2"),
   agentid |-> Str("7")]

\* the inputs of the specification of concurrent calls
Few ==
  [hosts |-> {Host1},
   users |-> {UserZhang, UserLi},
   lists |-> {IdList, Str("lisi")},
   ids |-> {Str("zhangsan"), Str("lisi")},
   departments |-> {Num(1)},
   flags |-> {Num(0), Num(1)},
   invited |-> {IdList},
   parties |-> {PartyList},
   tags |-> {TagList, Undefined},
   codes |-> {Str("CODE1"), Str("CODE2")},
   redirects |-> {Str("https://cb.example")},
   states |-> {Str("s1")},
   scopes |-> {Undefined, Str("snsapi_userinfo")}]

\* the inputs of the specification of one call at a time
Many ==
  [hosts |-> {Host1, Host2},
   users |-> {UserZhang, UserLi, UserExt, Obj(<<>>, <<>>)},
   lists |-> {IdList, Str("lisi"), Arr(<<>>)},
   ids |-> {Str("zhangsan"), Num(42), Str(""), Undefined},
   departments |-> {Num(1), Str("2"), Undefined},
   flags |-> {Num(0), Num(1), Undefined},
   invited |-> {IdList, Undefined},
   parties |-> {PartyList, Undefined},
   tags |-> {TagList, Undefined},
   codes |-> {Str("CODE1"), Str("a b&c"), Undefined},
   redirects |-> {Str("https://cb.example"), Str("http://h.example/cb?x=1&y=a b#top"), Undefined},
   states |-> {Str("s1"), Str("a=b c"), Str(""), Undefined},
   scopes |-> {Undefined, Str(""), Str("snsapi_userinfo"), Str("snsapi_base"), Str("a b")}]

---------------------------------------------------------------------------
(* The specifications *)

InitWith(D) ==
  /\ host \in D.hosts
  /\ version = 0
  /\ credential = Token(0)
  /\ calls = [c \in Callers |-> Idle]

\* a step of one of the callers C, its inputs drawn from D, or of a collaborator
NextWith(C, D) ==
  \/ \E c \in C : getCallbackIp(c)
  \/ \E c \in C, user \in D.users : createUser(c, user)
  \/ \E c \in C, user \in D.users : updateUser(c, user)
  \/ \E c \in C, x \in D.lists : deleteUser(c, x)
  \/ \E c \in C, id \in D.ids : getUser(c, id)
  \/ \E c \in C, d \in D.departments, f \in D.flags : getDepartmentUsers(c, d, f)
  \/ \E c \in C, d \in D.departments, f \in D.flags : getDepartmentUsersDetail(c, d, f)
  \/ \E c \in C, u \in D.invited, p \in D.parties, t \in D.tags : inviteUser(c, u, p, t)
  \/ \E c \in C, code \in D.codes : getUserIdByCode(c, code)
  \/ \E c \in C, r \in D.redirects, s \in D.states, sc \in D.scopes : getAuthorizeURL(c, r, s, sc)
  \/ \E c \in C : AccessorResolve(c)
  \/ \E c \in C, e \in Errors : AccessorReject(c, e)
  \/ RefreshToken
  \/ \E c \in C : Resume(c)
  \/ \E c \in C, r \in Results : TransportResolve(c, r)
  \/ \E c \in C, e \in Errors : TransportReject(c, e)
  \/ \E c \in C : Collect(c)

\* concurrent calls
Init == InitWith(Few)
Next == NextWith(Callers, Few)
Spec == Init /\ [][Next]_vars

\* one caller, every input
InitArgs == InitWith(Many)
NextArgs == NextWith({"c1"}, Many)
SpecArgs == InitArgs /\ [][NextArgs]_vars

---------------------------------------------------------------------------
(* What the claims are stated with *)

GatedOps ==
  {"getCallbackIp", "createUser", "updateUser", "deleteUser", "getUser", "getDepartmentUsers",
   "getDepartmentUsersDetail", "inviteUser", "getUserIdByCode"}

\* the endpoint of each operation, as the comment over its URL documents it
\* (for deleteUser, the comment of the definition that is exported)
DocumentedPath(op) ==
  CASE op = "getCallbackIp" -> "getcallbackip"
    [] op = "createUser" -> "user/create"
    [] op = "updateUser" -> "user/update"
    [] op = "deleteUser" -> "user/batchdelete"
    [] op = "getUser" -> "user/get"
    [] op = "getDepartmentUsers" -> "user/simplelist"
    [] op = "getDepartmentUsersDetail" -> "user/list"
    [] op = "inviteUser" -> "batch/invite"
    [] op = "getUserIdByCode" -> "user/getuserinfo"

StartsWith(s, p) == Len(s) >= Len(p) /\ SubSeq(s, 1, Len(p)) = p
EndsWith(s, p) == Len(s) >= Len(p) /\ SubSeq(s, Len(s) - Len(p) + 1, Len(s)) = p

\* the character of s at i, "" past its end
Ch(s, i) == IF i >= 1 /\ i <= Len(s) THEN SubSeq(s, i, i) ELSE ""

\* the first place at or after i where s has the character ch, 0 when none
IndexOf(s, ch, i) ==
  LET at == {j \in i..Len(s) : SubSeq(s, j, j) = ch}
  IN  IF at = {} THEN 0 ELSE CHOOSE j \in at : \A k \in at : j <= k

\* the token c's own call of the accessor resolved to
OwnToken(c) == Get(calls[c].acc.v, "accessToken")

\* c's call has handed a request to the transport
Requested(c) == calls[c].reqs # <<>>

(* JSON.parse, of the text JSON.stringify writes *)

DigitValue(ch) ==
  CASE ch = "0" -> 0 [] ch = "1" -> 1 [] ch = "2" -> 2 [] ch = "3" -> 3 [] ch = "4" -> 4
    [] ch = "5" -> 5 [] ch = "6" -> 6 [] ch = "7" -> 7 [] ch = "8" -> 8 [] ch = "9" -> 9
    [] OTHER -> -1

RECURSIVE ParseNumber(_, _, _)
RECURSIVE ParseValue(_, _)
RECURSIVE ParseItems(_, _, _)
RECURSIVE ParseProps(_, _, _, _)

\* digits from i on; n is the number read so far
ParseNumber(s, i, n) ==
  IF DigitValue(Ch(s, i)) >= 0 THEN ParseNumber(s, i + 1, 10 * n + DigitValue(Ch(s, i)))
  ELSE [v |-> Num(n), i |-> i]

\* the string whose text begins at i, up to its closing quote
ParseString(s, i) ==
  LET j == IndexOf(s, "\"", i)
  IN  [v |-> Str(SubSeq(s, i, j - 1)), i |-> j + 1]

ParseItems(s, i, items) ==
  LET r == ParseValue(s, i)
  IN  IF Ch(s, r.i) = "," THEN ParseItems(s, r.i + 1, Append(items, r.v))
      ELSE [v |-> Arr(Append(items, r.v)), i |-> r.i + 1]

ParseProps(s, i, keys, vals) ==
  LET key == ParseString(s, i + 1)
      r == ParseValue(s, key.i + 1)
  IN  IF Ch(s, r.i) = ","
      THEN ParseProps(s, r.i + 1, Append(keys, key.v.s), Append(vals, r.v))
      ELSE [v |-> Obj(Append(keys, key.v.s), Append(vals, r.v)), i |-> r.i + 1]

\* the value that starts at i, and where the text goes on after it
ParseValue(s, i) ==
  CASE Ch(s, i) = "\"" -> ParseString(s, i + 1)
    [] Ch(s, i) = "[" ->
         IF Ch(s, i + 1) = "]" THEN [v |-> Arr(<<>>), i |-> i + 2] ELSE ParseItems(s, i + 1, <<>>)
    [] Ch(s, i) = "{" ->
         IF Ch(s, i + 1) = "}" THEN [v |-> Obj(<<>>, <<>>), i |-> i + 2]
         ELSE ParseProps(s, i + 1, <<>>, <<>>)
    [] Ch(s, i) = "n" -> [v |-> Null, i |-> i + 4]
    [] OTHER -> ParseNumber(s, i, 0)

JSONparse(text) == ParseValue(text, 1).v

KeySet(o) == {o.keys[i] : i \in DOMAIN o.keys}

\* deep equality of two values: the same own properties with deeply equal
\* values, whatever their order
RECURSIVE DeepEqual(_, _)
DeepEqual(a, b) ==
  IF a.k # b.k THEN FALSE
  ELSE CASE a.k = "array" ->
              /\ Len(a.items) = Len(b.items)
              /\ \A i \in DOMAIN a.items : DeepEqual(a.items[i], b.items[i])
         [] a.k = "object" ->
              /\ KeySet(a) = KeySet(b)
              /\ \A key \in KeySet(a) : DeepEqual(Get(a, key), Get(b, key))
         [] OTHER -> a = b

\* a value without what JSON has no form for: an object's properties whose
\* value is undefined are dropped, an array's undefined elements are null
RECURSIVE WithoutUndefined(_)
WithoutUndefined(v) ==
  CASE v.k = "array" ->
         Arr([i \in DOMAIN v.items |->
                IF v.items[i].k = "undefined" THEN Null ELSE WithoutUndefined(v.items[i])])
    [] v.k = "object" ->
         LET kept == SelectSeq([i \in DOMAIN v.keys |-> i], LAMBDA i : v.vals[i].k # "undefined")
         IN  Obj([j \in DOMAIN kept |-> v.keys[kept[j]]],
                 [j \in DOMAIN kept |-> WithoutUndefined(v.vals[kept[j]])])
    [] OTHER -> v

(* Reading a URL's query back *)

\* the pieces of s between the separators ch
RECURSIVE SplitOn(_, _)
SplitOn(s, ch) ==
  LET at == IndexOf(s, ch, 1)
  IN  IF at = 0 THEN <<s>>
      ELSE <<SubSeq(s, 1, at - 1)>> \o SplitOn(SubSeq(s, at + 1, Len(s)), ch)

\* the character a percent-encoded triple stands for
PercentDecoded(triple) ==
  CASE triple = "%3A" -> ":"
    [] triple = "%2F" -> "/"
    [] triple = "%3F" -> "?"
    [] triple = "%26" -> "&"
    [] triple = "%3D" -> "="
    [] triple = "%23" -> "#"
    [] triple = "%20" -> " "
    [] triple = "%25" -> "%"
    [] triple = "%2B" -> "+"
    [] OTHER -> "?!"

\* s with each percent-encoded triple decoded
RECURSIVE Unescape(_)
Unescape(s) ==
  LET at == IndexOf(s, "%", 1)
  IN  IF at = 0 THEN s
      ELSE SubSeq(s, 1, at - 1) \o PercentDecoded(SubSeq(s, at, at + 2))
             \o Unescape(SubSeq(s, at + 3, Len(s)))

\* the text between the first "?" of a URL and its first "#"
QueryOf(url) ==
  LET q == IndexOf(url, "?", 1)
      h == IndexOf(url, "#", 1)
  IN  SubSeq(url, q + 1, h - 1)

\* the query's pairs as written, in order: [key, raw]
RawParams(url) ==
  LET pairs == SplitOn(QueryOf(url), "&")
  IN  [i \in DOMAIN pairs |->
         LET eq == IndexOf(pairs[i], "=", 1)
         IN  [key |-> SubSeq(pairs[i], 1, eq - 1), raw |-> SubSeq(pairs[i], eq + 1, Len(pairs[i]))]]

\* the decoded values the query gives for a key
ParamValues(url, key) ==
  {Unescape(RawParams(url)[i].raw) : i \in {j \in DOMAIN RawParams(url) : RawParams(url)[j].key = key}}

\* a raw value is URL-encoded: none of the characters that delimit a URL's parts
Encoded(raw) ==
  \A i \in 1..Len(raw) : SubSeq(raw, i, i) \notin {":", "/", "?", "&", "=", "#", " ", "+"}

\* an argument as text: a string is itself, an argument not given is empty
GivenText(v) == IF v.k = "string" THEN v.s ELSE ""

---------------------------------------------------------------------------
(* The claims *)

\* C1: if a gated operation's call of ensureAccessToken rejects with E, the
\* operation rejects with that same E (and has no other outcome before), and
\* the transport is never invoked for that call.
C1_AccessorRejectionPropagates ==
  \A c \in Callers :
    (calls[c].op \in GatedOps /\ calls[c].acc.st = "rejected") =>
      /\ calls[c].reqs = <<>>
      /\ calls[c].resp = None
      /\ calls[c].pc = "done" => calls[c].outcome = Rejected(calls[c].acc.v)
      /\ calls[c].pc # "done" => calls[c].outcome = Pending

C1_Witness ==
  \E c \in Callers :
    /\ calls[c].pc = "done"
    /\ calls[c].op = "getUserIdByCode"
    /\ calls[c].acc = Rejected(Err("invalid credential"))
    /\ calls[c].outcome = Rejected(Err("invalid credential"))

\* C2: the URL of every request of a gated operation is the prefix, then the
\* operation's path, then "?access_token=", then the token its own accessor
\* call resolved to; no request is made before that call has resolved.
C2_UrlIsPrefixPathToken ==
  \A c \in Callers :
    /\ calls[c].acc.st # "fulfilled" => calls[c].reqs = <<>>
    /\ \A i \in DOMAIN calls[c].reqs :
         /\ OwnToken(c).k = "string"
         /\ calls[c].reqs[i].url =
              Str(host.prefix.s \o DocumentedPath(calls[c].op) \o "?access_token=" \o OwnToken(c).s)

C2_Witness ==
  \E c \in Callers :
    /\ calls[c].op = "inviteUser"
    /\ host = Host2
    /\ Requested(c)
    /\ calls[c].reqs[1].url = Str("http://127.0.0.1:8080/api/batch/invite?access_token=TOKEN1")

\* C3: once the accessor has resolved, a gated operation invokes the transport
\* exactly once, and resolves to exactly what the transport returned, a payload
\* with a non-zero errcode included; getCallbackIp's request goes to
\* prefix + "getcallbackip" with the resolved token and no options.
C3_OneRequestResultUnmodified ==
  \A c \in Callers :
    /\ (calls[c].op \in GatedOps /\ calls[c].pc \in {"awaitResponse", "done"}
          /\ calls[c].acc.st = "fulfilled") => Len(calls[c].reqs) = 1
    /\ calls[c].pc = "awaitResponse" => calls[c].outcome = Pending
    /\ calls[c].resp.st = "fulfilled" =>
         /\ calls[c].pc = "done"
         /\ calls[c].outcome = Fulfilled(calls[c].resp.v)
    /\ (calls[c].op = "getCallbackIp" /\ Requested(c)) =>
         calls[c].reqs[1] =
           Request(Str(host.prefix.s \o "getcallbackip?access_token=" \o OwnToken(c).s), Undefined)

C3_Witness ==
  \E c \in Callers :
    /\ calls[c].op = "getCallbackIp"
    /\ calls[c].pc = "done"
    /\ Len(calls[c].reqs) = 1
    /\ Get(calls[c].resp.v, "errcode") = Num(40014)
    /\ calls[c].outcome.st = "fulfilled"
    /\ Get(calls[c].outcome.v, "errcode") = Num(40014)

\* C4: if the transport rejects with E the operation rejects with that same E,
\* and nothing is retried: a call invokes the accessor once and the transport
\* at most once, exactly once when the transport has answered.
C4_TransportRejectionNoRetry ==
  \A c \in Callers :
    /\ calls[c].nAcc <= 1
    /\ Len(calls[c].reqs) <= 1
    /\ calls[c].resp.st = "rejected" =>
         /\ calls[c].pc = "done"
         /\ calls[c].outcome = Rejected(calls[c].resp.v)
         /\ calls[c].nAcc = 1
         /\ Len(calls[c].reqs) = 1

C4_Witness ==
  \E c \in Callers :
    /\ calls[c].op = "updateUser"
    /\ calls[c].pc = "done"
    /\ calls[c].resp = Rejected(Err("ETIMEDOUT"))
    /\ calls[c].outcome = Rejected(Err("ETIMEDOUT"))

DataOf(req) == Get(req.opts, "data")

\* the query parameters are exactly these keys with these values
DataIs(req, keys, vals) ==
  /\ KeySet(req.opts) = {"data"}
  /\ DataOf(req).k = "object"
  /\ Len(DataOf(req).keys) = Len(keys)
  /\ KeySet(DataOf(req)) = {keys[i] : i \in DOMAIN keys}
  /\ \A i \in DOMAIN keys : Get(DataOf(req), keys[i]) = vals[i]

\* C6: the operations with scalar parameters send each parameter as given
\* under its documented key, and no other key: getUser sends userid;
\* getDepartmentUsers and getDepartmentUsersDetail send department_id and
\* fetch_child; getUserIdByCode sends code and the configured agentid.
C6_ScalarParametersVerbatim ==
  \A c \in Callers : \A i \in DOMAIN calls[c].reqs :
    LET req == calls[c].reqs[i]
        args == calls[c].args
    IN  /\ calls[c].op = "getUser" => DataIs(req, <<"userid">>, <<args[1]>>)
        /\ calls[c].op \in {"getDepartmentUsers", "getDepartmentUsersDetail"} =>
             DataIs(req, <<"department_id", "fetch_child">>, <<args[1], args[2]>>)
        /\ calls[c].op = "getUserIdByCode" =>
             DataIs(req, <<"code", "agentid">>, <<args[1], host.agentid>>)

C6_Witness ==
  \E c \in Callers :
    /\ calls[c].op = "getUserIdByCode"
    /\ host = Host2
    /\ Requested(c)
    /\ calls[c].reqs[1].opts =
         Obj(<<"data">>, <<Obj(<<"code", "agentid">>, <<Str("a b&c"), Str("7")>>)>>)

RecordOps == {"createUser", "updateUser", "inviteUser"}

\* the record a call of a record operation is given
InputRecord(c) ==
  IF calls[c].op = "inviteUser"
  THEN Obj(<<"user", "party", "tag">>, <<calls[c].args[1], calls[c].args[2], calls[c].args[3]>>)
  ELSE calls[c].args[1]

\* the body of c's request, parsed
ParsedBody(c) == JSONparse(Get(calls[c].reqs[1].opts, "data").s)

\* C7, as claimed: the body of createUser, updateUser and inviteUser, once
\* parsed, deep-equals the input record.
C7_BodyDeepEqualsInput ==
  \A c \in Callers :
    (calls[c].op \in RecordOps /\ Requested(c)) => DeepEqual(ParsedBody(c), InputRecord(c))

\* C7, amended: the body is a POST payload that, once parsed, deep-equals the
\* input record without its properties whose value is undefined, so it
\* deep-equals the input record itself whenever no property is undefined.
C7_BodyIsInputWithoutUndefined ==
  \A c \in Callers :
    (calls[c].op \in RecordOps /\ Requested(c)) =>
      /\ Get(calls[c].reqs[1].opts, "method") = Str("POST")
      /\ Get(calls[c].reqs[1].opts, "data").k = "string"
      /\ DeepEqual(ParsedBody(c), WithoutUndefined(InputRecord(c)))
      /\ WithoutUndefined(InputRecord(c)) = InputRecord(c) =>
           DeepEqual(ParsedBody(c), InputRecord(c))

C7_Witness ==
  \E c \in Callers :
    /\ calls[c].op = "inviteUser"
    /\ calls[c].args = <<IdList, Undefined, TagList>>
    /\ Requested(c)
    /\ ParsedBody(c) = Obj(<<"user", "tag">>, <<IdList, TagList>>)

\* C8: getAuthorizeURL returns within the call, without the accessor or the
\* transport; the URL starts with the authorize endpoint, ends with
\* "#wechat_redirect" and carries appid = the corpid, the URL-encoded
\* redirect_uri, response_type = code, the given state, and the given scope,
\* or "snsapi_base" when none is given.
C8_AuthorizeURL ==
  \A c \in Callers :
    calls[c].op = "getAuthorizeURL" =>
      LET url == calls[c].outcome.v.s
          redirect == calls[c].args[1]
          state == calls[c].args[2]
          scope == calls[c].args[3]
      IN  /\ calls[c].pc = "done"
          /\ calls[c].outcome.st = "returned"
          /\ calls[c].nAcc = 0 /\ calls[c].acc = None
          /\ calls[c].reqs = <<>> /\ calls[c].resp = None
          /\ StartsWith(url, "https://open.weixin.qq.com/connect/oauth2/authorize?")
          /\ EndsWith(url, "#wechat_redirect")
          /\ [i \in DOMAIN RawParams(url) |-> RawParams(url)[i].key] =
               <<"appid", "redirect_uri", "response_type", "scope", "state">>
          /\ \A i \in DOMAIN RawParams(url) : Encoded(RawParams(url)[i].raw)
          /\ ParamValues(url, "appid") = {host.corpid.s}
          /\ ParamValues(url, "redirect_uri") = {GivenText(redirect)}
          /\ ParamValues(url, "response_type") = {"code"}
          /\ ParamValues(url, "state") = {GivenText(state)}
          /\ ParamValues(url, "scope") =
               {IF GivenText(scope) # "" THEN GivenText(scope) ELSE "snsapi_base"}

C8_Witness ==
  \E c \in Callers :
    /\ calls[c].op = "getAuthorizeURL"
    /\ calls[c].args = <<Str("https://cb.example"), Str("s1"), Undefined>>
    /\ host = Host1
    /\ calls[c].outcome.v =
         Str("https://open.weixin.qq.com/connect/oauth2/authorize?appid=wx1d3765eb45497a18"
             \o "&redirect_uri=https%3A%2F%2Fcb.example&response_type=code&scope=snsapi_base"
             \o "&state=s1#wechat_redirect")

\* C9: no step of an operation, successful or failed, changes the host's
\* configuration or the accessor's credential: the configuration never
\* changes, and the credential changes only when the accessor refreshes it,
\* in a step that is no step of a call.
C9_NoLocalSideEffect ==
  [][/\ host' = host
     /\ calls' # calls => (credential' = credential /\ version' = version)
     /\ credential' # credential => version' = version + 1]_vars

C9_Witness ==
  \E c, d \in Callers :
    /\ c # d
    /\ calls[c].pc = "done" /\ calls[c].op = "deleteUser" /\ calls[c].outcome.st = "fulfilled"
    /\ calls[d].pc = "done" /\ calls[d].op = "getAuthorizeURL"

\* C10, of a state: the request of each call in flight is built from its own
\* token and its own parameters, and its outcome is that of its own request.
C10_OwnTokenArgsOutcome ==
  \A c \in Callers :
    /\ \A i \in DOMAIN calls[c].reqs :
         /\ StartsWith(calls[c].reqs[i].url.s, host.prefix.s)
         /\ EndsWith(calls[c].reqs[i].url.s, "?access_token=" \o OwnToken(c).s)
         /\ calls[c].reqs[i] = BodyOf(Exported(calls[c].op), host, OwnToken(c), calls[c].args)
    /\ (calls[c].pc = "done" /\ Requested(c)) => calls[c].outcome = calls[c].resp
    /\ (calls[c].pc = "done" /\ calls[c].op \in GatedOps /\ ~Requested(c)) =>
         calls[c].outcome = calls[c].acc

\* C10, of a step: a step of one call leaves every other call as it was.
C10_StepOfOne ==
  \A c, d \in Callers : (c # d /\ calls'[c] # calls[c]) => calls'[d] = calls[d]

\* C10: concurrent gated operations, under every interleaving of their
\* suspension points and with the token refreshed in between, each carry their
\* own token and parameters and end with the outcome of their own request; one
\* operation's failure or delay changes nothing of another.
C10_ConcurrentCallsIndependent == [](C10_OwnTokenArgsOutcome) /\ [][C10_StepOfOne]_vars

\* two calls answered in the reverse of the order they were made in, with
\* different tokens, one failed and one successful
C10_Witness ==
  \E c, d \in Callers :
    /\ c # d
    /\ calls[c].op = "createUser" /\ calls[c].args = <<UserZhang>>
    /\ calls[d].op = "getUser" /\ calls[d].args = <<Str("lisi")>>
    /\ Requested(c) /\ Requested(d)
    /\ OwnToken(c) = Token(1) /\ OwnToken(d) = Token(0)
    /\ calls[c].pc = "done" /\ calls[c].outcome.st = "rejected"
    /\ calls[d].pc = "awaitResponse"

====
